---- MODULE Spec2Model ----
(***************************************************************************)
(* Model of pydeepskylog: the contrast-reserve engine                      *)
(* (src/pydeepskylog/contrast_reserve.py), the Bortle conversions          *)
(* (src/pydeepskylog/magnitude.py) and the inventory client with its cache *)
(* (src/pydeepskylog/deepskylog_interface.py).                             *)
(*                                                                         *)
(* Python floats are modelled as decimal floating-point numbers: the       *)
(* integer n stands for n / Scale, and every arithmetic operation rounds   *)
(* its result to SigDigits significant digits (and to a multiple of        *)
(* 1 / Scale), as a binary64 operation rounds to 53 significant bits.      *)
(* Comparisons and int() are exact.  Python values that may be None or of  *)
(* a non-numeric type are records [k, v] with k the kind.                  *)
(***************************************************************************)
EXTENDS Integers, Sequences, FiniteSets, TLC

VARIABLES
    tc_in,          \* arguments of the calculate_threshold_contrast call
    tc_out,         \* its outcome
    tc_trace,       \* the table indices and the fraction the call used
    cr_in,          \* arguments of the contrast_reserve call
    cr_out,         \* its outcome
    odm_in,         \* arguments of the optimal_detection_magnification call
    pc,             \* position of optimal_detection_magnification
    best_contrast,  \* local of optimal_detection_magnification
    best_x,         \* local of optimal_detection_magnification
    idx,            \* number of candidates the search loop has consumed
    evaluated,      \* number of contrast_reserve calls the search has made
    odm_err,        \* message of the error optimal_detection_magnification raised
    bt_in,          \* the Bortle conversion called and its arguments
    bt_out,         \* its outcome
    rt_out,         \* outcome of converting the result back to a Bortle class
    mg_in,          \* arguments of the calculate_magnifications call
    mg_out,         \* its outcome
    cache,          \* _DSL_API_CACHE: url -> (timestamp, data)
    now,            \* time.time()
    api_in,         \* the latest _dsl_api_call: its url and the server's answer
    api_out         \* its outcome

vars == <<tc_in, tc_out, tc_trace, cr_in, cr_out, odm_in, pc, best_contrast, best_x,
          idx, evaluated, odm_err, bt_in, bt_out, rt_out, mg_in, mg_out,
          cache, now, api_in, api_out>>

tcVars == <<tc_in, tc_out, tc_trace>>
crVars == <<cr_in, cr_out>>
odmVars == <<odm_in, pc, best_contrast, best_x, idx, evaluated, odm_err>>
btVars == <<bt_in, bt_out, rt_out>>
mgVars == <<mg_in, mg_out>>
apiVars == <<cache, now, api_in, api_out>>
libVars == <<btVars, mgVars, apiVars>>

---------------------------------------------------------------------------
(* Decimal floating-point arithmetic standing for Python's floats.         *)

Scale == 10 * 10 * 10 * 10

\* significant decimal digits a number keeps
SigDigits == 5

Fx(units, frac) == units * Scale + frac

Abs(x) == IF x < 0 THEN -x ELSE x

RECURSIVE NumDigits(_)
NumDigits(n) == IF n < 10 THEN 1 ELSE 1 + NumDigits(n \div 10)

\* x rounded to SigDigits significant digits, halves away from zero
RoundSig(x) ==
    LET a == Abs(x)
    IN  IF a < 10 ^ SigDigits THEN x
        ELSE LET unit == 10 ^ (NumDigits(a) - SigDigits)
                 r == ((a + (unit \div 2)) \div unit) * unit
             IN  IF x < 0 THEN -r ELSE r

Add(a, b) == RoundSig(a + b)
Sub(a, b) == RoundSig(a - b)

\* a * b to the nearest multiple of 1/Scale (split so that no intermediate
\* product leaves the checker's integer range)
ExactMul(a, b) ==
    LET qa == a \div Scale
        ra == a % Scale
        qb == b \div Scale
        rb == b % Scale
    IN  qa * qb * Scale + qa * rb + qb * ra + ((ra * rb + (Scale \div 2)) \div Scale)

Mul(a, b) == RoundSig(ExactMul(a, b))

RECURSIVE DivDigits(_, _, _)
DivDigits(r, b, n) ==
    IF n = 0 THEN 0
    ELSE ((r * 10) \div b) * (10 ^ (n - 1)) + DivDigits((r * 10) % b, b, n - 1)

\* a / b for b # 0, by long division to four decimals
Div(a, b) ==
    LET aa == IF b > 0 THEN a ELSE -a
        bb == IF b > 0 THEN b ELSE -b
    IN  RoundSig((aa \div bb) * Scale + DivDigits(aa % bb, bb, 4))

\* int(x): truncation toward zero; the result is a plain integer
Trunc(x) == IF x >= 0 THEN x \div Scale ELSE -((-x) \div Scale)

RECURSIVE Log10Char(_)
Log10Char(x) ==
    IF x >= 10 * Scale THEN Log10Char(x \div 10) + 1
    ELSE IF x < Scale THEN Log10Char(x * 10) - 1
    ELSE 0

RECURSIVE Log10Mant(_)
Log10Mant(x) ==
    IF x >= 10 * Scale THEN Log10Mant(x \div 10)
    ELSE IF x < Scale THEN Log10Mant(x * 10)
    ELSE x

\* binary digits of log10(m) for 1 <= m < 10, by repeated squaring
RECURSIVE Log10Bits(_, _)
Log10Bits(m, n) ==
    IF n = 0 THEN 0
    ELSE LET m2 == ExactMul(m, m)
         IN  IF m2 >= 10 * Scale
             THEN 2 ^ (n - 1) + Log10Bits(m2 \div 10, n - 1)
             ELSE Log10Bits(m2, n - 1)

\* math.log10(x) for x > 0
Log10(x) ==
    RoundSig(Log10Char(x) * Scale
             + ((Log10Bits(Log10Mant(x), 14) * Scale + 2 ^ 13) \div (2 ^ 14)))

\* 10 ^ (1/2), 10 ^ (1/4), ... : the factors of a power of ten, one for
\* each binary digit of the exponent's fraction
Pow10Roots ==
    <<31623, 17783, 13335, 11548, 10746, 10366, 10182, 10090, 10045, 10023,
      10011, 10006, 10003, 10001>>

\* 10 ** (f / Scale) for 0 <= f < Scale, digit i of the fraction onwards
RECURSIVE Pow10Frac(_, _, _)
Pow10Frac(f, i, m) ==
    IF i > Len(Pow10Roots) THEN m
    ELSE IF 2 * f >= Scale
    THEN Pow10Frac(2 * f - Scale, i + 1, Mul(m, Pow10Roots[i]))
    ELSE Pow10Frac(2 * f, i + 1, m)

\* 10 ** y
Pow10(y) ==
    LET c == IF y >= 0 THEN y \div Scale ELSE -((-y + Scale - 1) \div Scale)
        m == Pow10Frac(y - c * Scale, 1, Scale)
    IN  IF c >= 0 THEN RoundSig(m * 10 ^ c)
        ELSE RoundSig((m + (10 ^ (-c)) \div 2) \div (10 ^ (-c)))

---------------------------------------------------------------------------
(* Python values                                                           *)

Num(v) == [k |-> "num", v |-> v]
None == [k |-> "none", v |-> 0]
NotANumber == [k |-> "str", v |-> 0]

\* isinstance(x, (int, float))
IsNum(x) == x.k = "num"
IsNone(x) == x.k = "none"

\* outcome of a call: a returned value or a raised ValueError
Ret(v) == [st |-> "returned", val |-> v, err |-> ""]
Raise(msg) == [st |-> "raised", val |-> 0, err |-> msg]
Pending == [st |-> "pending", val |-> 0, err |-> ""]

---------------------------------------------------------------------------
(* ContrastReserveConfig (pydeepskylog/config.py): the calibration tables. *)
(* Column 0 of an LTC row is its sky brightness, 4 for row 0 and one more  *)
(* for each further row; the other columns are the log threshold contrast  *)
(* at the angular sizes of ANGLE (log10 of arc minutes, increasing).       *)

ANGLE == << -2255, 5563, 9859, 12600, 17420, 20830, 25560 >>

LTC == <<
    << 40000,  -3769, -18064, -23368, -24601, -25469, -25610, -25660>>,
    << 50000,  -3315, -17747, -23337, -24608, -25465, -25607, -25658>>,
    << 60000,  -2682, -17345, -23310, -24605, -25467, -25608, -25658>>,
    << 70000,  -1982, -16851, -23140, -24572, -25481, -25615, -25665>>,
    << 80000,  -1238, -16252, -22791, -24462, -25463, -25597, -25646>>,
    << 90000,   -424, -15529, -22297, -24214, -25343, -25501, -25552>>,
    <<100000,    498, -14655, -21659, -23763, -25047, -25269, -25333>>,
    <<110000,   1596, -13581, -20810, -23036, -24499, -24823, -24937>>,
    <<120000,   2934, -12256, -19674, -21965, -23631, -24092, -24318>>,
    <<130000,   4557, -10673, -18186, -20531, -22445, -23083, -23491>>,
    <<140000,   6500,  -8841, -16292, -18741, -20989, -21848, -22505>>,
    <<150000,   8808,  -6687, -13967, -16611, -19284, -20411, -21375>>,
    <<160000,  11558,  -3952, -11264, -14176, -17300, -18727, -20034>>,
    <<170000,  14822,   -419,  -8243, -11475, -15021, -16768, -18420>>,
    <<180000,  18559,   3458,  -4924,  -8561, -12661, -14721, -16624>>,
    <<190000,  22669,   6960,  -1315,  -5510, -10562, -12892, -14827>>,
    <<200000,  26760,  10880,   2060,  -3210,  -8800, -11370, -13620>>,
    <<210000,  27766,  12065,   3467,  -1377,  -7361,  -9964, -12439>>,
    <<220000,  29304,  13821,   5353,    328,  -5605,  -8606, -11187>>,
    <<230000,  31634,  16107,   7708,   2531,  -3895,  -7030,  -9681>>,
    <<240000,  34643,  19034,  10338,   4943,  -2033,  -5259,  -8288>>,
    <<250000,  38211,  22564,  13265,   7605,    172,  -2992,  -6394>>,
    <<260000,  42210,  26320,  16990,  11320,   2860,   -510,  -4080>>,
    <<270000,  46100,  30660,  21320,  15850,   6520,   2410,  -1210>> >>

ANGLE_SIZE == Len(ANGLE)
LTC_SIZE == Len(LTC)

\* ANGLE[i] and LTC[r][c] with Python's indices, which start at 0
AngleAt(i) == ANGLE[i + 1]
LtcAt(r, c) == LTC[r + 1][c + 1]

---------------------------------------------------------------------------
(* calculate_threshold_contrast                                            *)

max_log_contrast == 37

\* the row index sky_brightness_index_a
SkyIndexA(int_sky_brightness) ==
    LET a0 == int_sky_brightness - 4
        a1 == IF a0 < 0 THEN 0 ELSE a0
    IN  IF a1 > LTC_SIZE - 2 THEN LTC_SIZE - 2 ELSE a1

\* the while loop over ANGLE: the value of angle_index when it exits
RECURSIVE ScanAngle(_, _)
ScanAngle(angle_index, log_angular_size) ==
    IF angle_index < ANGLE_SIZE /\ log_angular_size > AngleAt(angle_index)
    THEN ScanAngle(angle_index + 1, log_angular_size)
    ELSE angle_index

\* angle_index as used by the interpolation
AngleIndex(log_angular_size) ==
    LET i0 == ScanAngle(0, log_angular_size) + 1 - 2
        i1 == IF i0 < 0 THEN 0 ELSE i0
    IN  IF i1 = ANGLE_SIZE - 1 THEN ANGLE_SIZE - 2 ELSE i1

\* log_angular_size as used by the interpolation
ClampedLogAngle(log_angular_size) ==
    IF ScanAngle(0, log_angular_size) + 1 - 2 < 0
    THEN AngleAt(0)
    ELSE log_angular_size

\* a variant that takes the column to the left without interpolating
InterpolatedContrastLeftColumn(row, angle_index, angle_fraction) ==
    LtcAt(row, angle_index + 1)

\* lines 201-214: one row interpolated between two columns
InterpolatedContrast(row, angle_index, angle_fraction) ==
    Add(LtcAt(row, angle_index + 1),
        Mul(angle_fraction,
            Sub(LtcAt(row, angle_index + 2), LtcAt(row, angle_index + 1))))

\* the sky brightness used by the last interpolation step
FlooredSkyBrightness(sky_background_brightness) ==
    IF sky_background_brightness < LtcAt(0, 0)
    THEN LtcAt(0, 0)
    ELSE sky_background_brightness

\* a variant without the upper clamp
ClampLogContrastBelowOnly(log_threshold_contrast) ==
    IF log_threshold_contrast < -(max_log_contrast * Scale)
    THEN -(max_log_contrast * Scale)
    ELSE log_threshold_contrast

\* lines 232-235
ClampLogContrast(log_threshold_contrast) ==
    IF log_threshold_contrast > max_log_contrast * Scale
    THEN max_log_contrast * Scale
    ELSE IF log_threshold_contrast < -(max_log_contrast * Scale)
    THEN -(max_log_contrast * Scale)
    ELSE log_threshold_contrast

\* lines 163-237, from the logarithm of the angular size on
ThresholdFromLog(sky_background_brightness, log_angular_size0) ==
    LET int_sky_brightness == Trunc(sky_background_brightness)
        sky_brightness_index_a == SkyIndexA(int_sky_brightness)
        sky_brightness_index_b == sky_brightness_index_a + 1
        angle_index == AngleIndex(log_angular_size0)
        log_angular_size == ClampedLogAngle(log_angular_size0)
        angle_fraction ==
            Div(Sub(log_angular_size, AngleAt(angle_index)),
                Sub(AngleAt(angle_index + 1), AngleAt(angle_index)))
        interpolated_contrast_a ==
            InterpolatedContrast(sky_brightness_index_a, angle_index, angle_fraction)
        interpolated_contrast_b ==
            InterpolatedContrast(sky_brightness_index_b, angle_index, angle_fraction)
        sky == FlooredSkyBrightness(sky_background_brightness)
        log_threshold_contrast ==
            IF int_sky_brightness * Scale >= LtcAt(LTC_SIZE - 1, 0)
            THEN Add(interpolated_contrast_b,
                     Mul(Sub(sky, LtcAt(LTC_SIZE - 1, 0)),
                         Sub(interpolated_contrast_b, interpolated_contrast_a)))
            ELSE Add(interpolated_contrast_a,
                     Mul(Sub(sky, int_sky_brightness * Scale),
                         Sub(interpolated_contrast_b, interpolated_contrast_a)))
    IN  ClampLogContrast(log_threshold_contrast)

\* nothing looked up: the call has not run, or it raised at line 162
NoTrace ==
    [row_a |-> 0, row_b |-> 0, angle_index |-> 0, scanned |-> 0,
     log_angular_size |-> 0, angle_fraction |-> 0]

\* a variant that takes the row from int(sky) - 4 as it is
ThresholdTraceUnclampedRow(sky_background_brightness, log_angular_size0) ==
    [row_a |-> Trunc(sky_background_brightness) - 4,
     row_b |-> Trunc(sky_background_brightness) - 4 + 1,
     angle_index |-> AngleIndex(log_angular_size0),
     scanned |-> ScanAngle(0, log_angular_size0),
     log_angular_size |-> ClampedLogAngle(log_angular_size0),
     angle_fraction |->
         Div(Sub(ClampedLogAngle(log_angular_size0), AngleAt(AngleIndex(log_angular_size0))),
             Sub(AngleAt(AngleIndex(log_angular_size0) + 1),
                 AngleAt(AngleIndex(log_angular_size0))))]

\* lines 165-198: the row and column indices the interpolation reads the
\* tables at, the value of the scan's counter when the while loop exits, and
\* the log angular size and the fraction the interpolation uses
ThresholdTrace(sky_background_brightness, log_angular_size0) ==
    [row_a |-> SkyIndexA(Trunc(sky_background_brightness)),
     row_b |-> SkyIndexA(Trunc(sky_background_brightness)) + 1,
     angle_index |-> AngleIndex(log_angular_size0),
     scanned |-> ScanAngle(0, log_angular_size0),
     log_angular_size |-> ClampedLogAngle(log_angular_size0),
     angle_fraction |->
         Div(Sub(ClampedLogAngle(log_angular_size0), AngleAt(AngleIndex(log_angular_size0))),
             Sub(AngleAt(AngleIndex(log_angular_size0) + 1),
                 AngleAt(AngleIndex(log_angular_size0))))]

\* the value returned for angular_size_arcmin > 0
calculate_threshold_contrast(sky_background_brightness, angular_size_arcmin) ==
    ThresholdFromLog(sky_background_brightness, Log10(angular_size_arcmin))

---------------------------------------------------------------------------
(* surface_brightness                                                      *)

surface_brightness(magnitude, object_diameter1, object_diameter2) ==
    IF ~IsNum(magnitude) THEN Raise("Magnitude must be a number")
    ELSE IF ~IsNum(object_diameter1) THEN Raise("Object diameter 1 must be a number")
    ELSE IF ~IsNum(object_diameter2) THEN Raise("Object diameter 2 must be a number")
    ELSE IF object_diameter1.v <= 0 THEN Raise("Object diameter 1 must be positive")
    ELSE IF object_diameter2.v <= 0 THEN Raise("Object diameter 2 must be positive")
    ELSE Ret(Add(magnitude.v,
                 Mul(Fx(2, 5000),
                     Log10(Mul(Mul(Fx(2827, 0), Div(object_diameter1.v, Fx(60, 0))),
                               Div(object_diameter2.v, Fx(60, 0)))))))

---------------------------------------------------------------------------
(* contrast_reserve and its helpers                                        *)

\* lines 50-62: the checks of the required arguments
validate_required_inputs(sqm, telescope_diameter, magnification) ==
    IF ~IsNum(sqm) THEN "SQM must be a number"
    ELSE IF ~IsNum(telescope_diameter) THEN "Telescope diameter must be a number"
    ELSE IF ~IsNum(magnification) THEN "Magnification must be a number"
    ELSE IF telescope_diameter.v <= 0 THEN "Telescope diameter must be positive"
    ELSE IF magnification.v <= 0 THEN "Magnification must be positive"
    ELSE ""

\* lines 64-83: the checks of the optional arguments
validate_optional_inputs(surf_brightness, magnitude, object_diameter1, object_diameter2) ==
    IF ~IsNone(surf_brightness) /\ ~IsNum(surf_brightness)
    THEN "Surface brightness must be a number or None"
    ELSE IF IsNone(surf_brightness) /\ ~IsNone(magnitude) /\ ~IsNum(magnitude)
    THEN "Magnitude must be a number or None"
    ELSE IF ~IsNone(object_diameter1) /\ ~IsNum(object_diameter1)
    THEN "Object diameter 1 must be a number or None"
    ELSE IF ~IsNone(object_diameter2) /\ ~IsNum(object_diameter2)
    THEN "Object diameter 2 must be a number or None"
    ELSE IF ~IsNone(object_diameter1) /\ object_diameter1.v <= 0
    THEN "Object diameter 1 must be positive"
    ELSE IF ~IsNone(object_diameter2) /\ object_diameter2.v <= 0
    THEN "Object diameter 2 must be positive"
    ELSE ""

\* a variant that checks the optional arguments first
validate_optional_inputs_first(sqm, telescope_diameter, magnification, surf_brightness, magnitude, object_diameter1, object_diameter2) ==
    LET optional == validate_optional_inputs(surf_brightness, magnitude,
                                             object_diameter1, object_diameter2)
    IN  IF optional # "" THEN optional
        ELSE validate_required_inputs(sqm, telescope_diameter, magnification)

\* lines 50-83: the message of the ValueError raised, "" when the inputs pass
validate_contrast_reserve_inputs(sqm, telescope_diameter, magnification, surf_brightness, magnitude, object_diameter1, object_diameter2) ==
    LET required == validate_required_inputs(sqm, telescope_diameter, magnification)
    IN  IF required # "" THEN required
        ELSE validate_optional_inputs(surf_brightness, magnitude,
                                      object_diameter1, object_diameter2)

\* a variant that takes a missing diameter as 60 arc seconds
calculate_initial_parameters_default_diameter(sqm, telescope_diameter, object_diameter1, object_diameter2) ==
    LET aperture_in_inches == Div(telescope_diameter.v, Fx(25, 4000))
        sbb1 == Sub(sqm.v, Mul(Fx(5, 0), Log10(Mul(Fx(2, 8330), aperture_in_inches))))
        m1 == IF IsNone(object_diameter1) THEN Fx(1, 0)
              ELSE Div(object_diameter1.v, Fx(60, 0))
        m2 == IF IsNone(object_diameter2) THEN Fx(1, 0)
              ELSE Div(object_diameter2.v, Fx(60, 0))
    IN  Ret([aperture_in_inches |-> aperture_in_inches,
             sbb1 |-> sbb1,
             object_diameter1_in_arc_minutes |-> IF m1 > m2 THEN m2 ELSE m1,
             object_diameter2_in_arc_minutes |-> IF m1 > m2 THEN m1 ELSE m2])

\* the tuple returned, as a record in val, or the ValueError raised
calculate_initial_parameters(sqm, telescope_diameter, object_diameter1, object_diameter2) ==
    LET aperture_in_inches == Div(telescope_diameter.v, Fx(25, 4000))
        sbb1 == Sub(sqm.v, Mul(Fx(5, 0), Log10(Mul(Fx(2, 8330), aperture_in_inches))))
    IN  IF IsNone(object_diameter1) \/ IsNone(object_diameter2)
        THEN Raise("Object diameters must be provided to calculate contrast reserve")
        ELSE LET m1 == Div(object_diameter1.v, Fx(60, 0))
                 m2 == Div(object_diameter2.v, Fx(60, 0))
             IN  Ret([aperture_in_inches |-> aperture_in_inches,
                      sbb1 |-> sbb1,
                      object_diameter1_in_arc_minutes |-> IF m1 > m2 THEN m2 ELSE m1,
                      object_diameter2_in_arc_minutes |-> IF m1 > m2 THEN m1 ELSE m2])

\* a variant that takes every value but None as present
TruthyNotNone(x) == ~IsNone(x)

\* line 138, Python's truth value of surf_brightness: neither None nor zero
Truthy(x) == ~IsNone(x) /\ ~(IsNum(x) /\ x.v = 0)

\* a variant that takes a missing magnitude as 0
calculate_log_object_contrast_default_magnitude(sqm, surf_brightness, magnitude, object_diameter1, object_diameter2) ==
    IF Truthy(surf_brightness)
    THEN Ret(Mul(-Fx(0, 4000), Sub(Add(surf_brightness.v, Fx(8, 8900)), sqm.v)))
    ELSE LET sb == surface_brightness(IF IsNone(magnitude) THEN Num(0) ELSE magnitude,
                                      object_diameter1, object_diameter2)
         IN  IF sb.st = "raised" THEN sb
             ELSE Ret(Mul(-Fx(0, 4000), Sub(sb.val, sqm.v)))

\* a variant that adds the 8.89 offset on the magnitude path as well
calculate_log_object_contrast_same_formula(sqm, surf_brightness, magnitude, object_diameter1, object_diameter2) ==
    IF Truthy(surf_brightness)
    THEN Ret(Mul(-Fx(0, 4000), Sub(Add(surf_brightness.v, Fx(8, 8900)), sqm.v)))
    ELSE IF IsNone(magnitude)
    THEN Raise("Magnitude must be provided if surface brightness is not given")
    ELSE LET sb == surface_brightness(magnitude, object_diameter1, object_diameter2)
         IN  IF sb.st = "raised" THEN sb
             ELSE Ret(Mul(-Fx(0, 4000), Sub(Add(sb.val, Fx(8, 8900)), sqm.v)))

\* lines 138-150
calculate_log_object_contrast(sqm, surf_brightness, magnitude, object_diameter1, object_diameter2) ==
    IF Truthy(surf_brightness)
    THEN Ret(Mul(-Fx(0, 4000), Sub(Add(surf_brightness.v, Fx(8, 8900)), sqm.v)))
    ELSE IF IsNone(magnitude)
    THEN Raise("Magnitude must be provided if surface brightness is not given")
    ELSE LET sb == surface_brightness(magnitude, object_diameter1, object_diameter2)
         IN  IF sb.st = "raised" THEN sb
             ELSE Ret(Mul(-Fx(0, 4000), Sub(sb.val, sqm.v)))

\* lines 288-295: the threshold contrast at the given magnification
MagnifiedThresholdContrast(initial, magnification) ==
    LET sbb == Add(initial.sbb1, Mul(Fx(5, 0), Log10(magnification.v)))
        ang == Mul(magnification.v, initial.object_diameter1_in_arc_minutes)
    IN  calculate_threshold_contrast(sbb, ang)

contrast_reserve(sqm, telescope_diameter, magnification, surf_brightness, magnitude, object_diameter1, object_diameter2) ==
    LET invalid == validate_contrast_reserve_inputs(
                       sqm, telescope_diameter, magnification, surf_brightness,
                       magnitude, object_diameter1, object_diameter2)
    IN  IF invalid # "" THEN Raise(invalid)
        ELSE
        LET initial == calculate_initial_parameters(
                           sqm, telescope_diameter, object_diameter1, object_diameter2)
        IN  IF initial.st = "raised" THEN initial
            ELSE
            LET log_object_contrast == calculate_log_object_contrast(
                    sqm, surf_brightness, magnitude, object_diameter1, object_diameter2)
            IN  IF log_object_contrast.st = "raised" THEN log_object_contrast
                ELSE
                Ret(Sub(log_object_contrast.val,
                        MagnifiedThresholdContrast(initial.val, magnification)))

---------------------------------------------------------------------------
(* optimal_detection_magnification                                         *)

\* the magnifications argument: a list of values, or something that is no list
List(items) == [is_list |-> TRUE, items |-> items]
NotAList == [is_list |-> FALSE, items |-> <<>>]

\* a variant that checks a candidate only when the search reaches it, so that
\* nothing but the first entry is checked before the search starts
validate_first_magnification(items) ==
    IF items = <<>> THEN ""
    ELSE IF ~IsNum(Head(items)) THEN "Each magnification must be a number"
    ELSE IF Head(items).v <= 0 THEN "Each magnification must be positive"
    ELSE ""

\* lines 356-360: the error of the first bad entry, "" when there is none
RECURSIVE validate_magnifications(_)
validate_magnifications(items) ==
    IF items = <<>> THEN ""
    ELSE IF ~IsNum(Head(items)) THEN "Each magnification must be a number"
    ELSE IF Head(items).v <= 0 THEN "Each magnification must be positive"
    ELSE validate_magnifications(Tail(items))

\* a variant that refuses an empty candidate list
validate_magnifications_argument_nonempty(magnifications) ==
    IF ~magnifications.is_list THEN "Magnifications must be a list"
    ELSE IF magnifications.items = <<>> THEN "Magnifications must not be empty"
    ELSE validate_magnifications(magnifications.items)

\* lines 351-360: the checks of the magnifications argument
validate_magnifications_argument(magnifications) ==
    IF ~magnifications.is_list THEN "Magnifications must be a list"
    ELSE validate_magnifications(magnifications.items)

\* lines 320-360: the message of the ValueError raised, "" when the inputs pass
validate_optimal_detection_magnification(a) ==
    IF ~IsNum(a.sqm) THEN "SQM must be a number"
    ELSE IF ~IsNum(a.telescope_diameter) THEN "Telescope diameter must be a number"
    ELSE IF a.telescope_diameter.v <= 0 THEN "Telescope diameter must be positive"
    ELSE IF ~IsNone(a.surf_brightness) /\ ~IsNum(a.surf_brightness)
    THEN "Surface brightness must be a number or None"
    ELSE IF IsNone(a.surf_brightness) /\ ~IsNone(a.magnitude) /\ ~IsNum(a.magnitude)
    THEN "Magnitude must be a number or None"
    ELSE IF ~IsNone(a.object_diameter1) /\ ~IsNum(a.object_diameter1)
    THEN "Object diameter 1 must be a number or None"
    ELSE IF ~IsNone(a.object_diameter2) /\ ~IsNum(a.object_diameter2)
    THEN "Object diameter 2 must be a number or None"
    ELSE IF ~IsNone(a.object_diameter1) /\ a.object_diameter1.v <= 0
    THEN "Object diameter 1 must be positive"
    ELSE IF ~IsNone(a.object_diameter2) /\ a.object_diameter2.v <= 0
    THEN "Object diameter 2 must be positive"
    ELSE validate_magnifications_argument(a.magnifications)

\* variants of the comparison: ties replace the best one; the comparison is reversed
ImprovesOrTies(contrast, best) == contrast >= best
ImprovesReversed(contrast, best) == contrast < best

\* line 368: whether a candidate's contrast replaces the best one
Improves(contrast, best) == contrast > best

\* lines 366-367: the contrast_reserve call for one candidate
CandidateContrast(a, magnification) ==
    contrast_reserve(a.sqm, a.telescope_diameter, magnification, a.surf_brightness,
                     a.magnitude, a.object_diameter1, a.object_diameter2)

\* lines 320-363: validation, then the initialisation of the search
OdmValidate ==
    /\ pc = "start"
    /\ LET invalid == validate_optimal_detection_magnification(odm_in)
       IN  IF invalid # ""
           THEN /\ pc' = "raised"
                /\ odm_err' = invalid
                /\ UNCHANGED <<best_contrast, best_x>>
           ELSE /\ pc' = "loop"
                /\ best_contrast' = -Fx(999, 0)
                /\ best_x' = 0
                /\ odm_err' = ""
    /\ UNCHANGED <<odm_in, idx, evaluated, tcVars, crVars, libVars>>

\* lines 365-370: one iteration of the search loop
OdmStep ==
    /\ pc = "loop"
    /\ idx < Len(odm_in.magnifications.items)
    /\ LET magnification == odm_in.magnifications.items[idx + 1]
           contrast == CandidateContrast(odm_in, magnification)
       IN  /\ evaluated' = evaluated + 1
           /\ IF contrast.st = "raised"
              THEN /\ pc' = "raised"
                   /\ odm_err' = contrast.err
                   /\ UNCHANGED <<best_contrast, best_x, idx>>
              ELSE /\ idx' = idx + 1
                   /\ IF Improves(contrast.val, best_contrast)
                      THEN /\ best_contrast' = contrast.val
                           /\ best_x' = magnification.v
                      ELSE UNCHANGED <<best_contrast, best_x>>
                   /\ UNCHANGED <<pc, odm_err>>
    /\ UNCHANGED <<odm_in, tcVars, crVars, libVars>>

\* line 372: the loop is exhausted, best_x is returned
OdmReturn ==
    /\ pc = "loop"
    /\ idx = Len(odm_in.magnifications.items)
    /\ pc' = "returned"
    /\ UNCHANGED <<odm_in, best_contrast, best_x, idx, evaluated, odm_err, tcVars, crVars, libVars>>

---------------------------------------------------------------------------
(* The calls of calculate_threshold_contrast and contrast_reserve          *)

\* lines 153-237; math.log10 raises for an angular size that is not positive
ThresholdCall ==
    /\ tc_out.st = "pending"
    /\ tc_out' = IF tc_in.ang <= 0
                 THEN Raise("math domain error")
                 ELSE Ret(calculate_threshold_contrast(tc_in.sky, tc_in.ang))
    /\ tc_trace' = IF tc_in.ang <= 0
                   THEN NoTrace
                   ELSE ThresholdTrace(tc_in.sky, Log10(tc_in.ang))
    /\ UNCHANGED <<tc_in, crVars, odmVars, libVars>>

CallContrastReserve(a) ==
    contrast_reserve(a.sqm, a.telescope_diameter, a.magnification, a.surf_brightness,
                     a.magnitude, a.object_diameter1, a.object_diameter2)

ContrastReserveCall ==
    /\ cr_out.st = "pending"
    /\ cr_out' = CallContrastReserve(cr_in)
    /\ UNCHANGED <<cr_in, tcVars, odmVars, libVars>>

---------------------------------------------------------------------------
(* Inputs                                                                  *)

\* longest candidate list of the search
MaxMagnifications == 2

RECURSIVE SeqsUpTo(_, _)
SeqsUpTo(S, n) ==
    IF n = 0 THEN {<<>>}
    ELSE LET shorter == SeqsUpTo(S, n - 1)
         IN  shorter \cup {Append(q, x) : q \in {r \in shorter : Len(r) = n - 1}, x \in S}

\* sky brightness from far below the table's first row to far above its last
SkyValues ==
    {-Fx(2, 5000), -Fx(0, 5000), 0, Fx(2, 0), Fx(3, 0), Fx(3, 5000), Fx(4, 0),
     Fx(4, 5000), Fx(12, 3400), Fx(21, 5000), Fx(26, 5000), Fx(27, 0),
     Fx(27, 5000), Fx(30, 0), Fx(3000, 0)}

\* angular sizes from below 10^ANGLE[0] to above the last breakpoint, and two
\* that are not positive
AngularSizes ==
    {-Fx(1, 0), 0, Fx(0, 1000), Fx(0, 5950), Fx(1, 0), Fx(5, 0), Fx(10, 0),
     Fx(100, 0), Fx(360, 0), Fx(10000, 0)}

\* the sky brightness of every row of LTC
GridSkyValues == {LtcAt(r, 0) : r \in 0 .. LTC_SIZE - 1}

\* the angular size 10 ** ANGLE[k] of every breakpoint
GridAngularSizes == {Pow10(AngleAt(k)) : k \in 0 .. ANGLE_SIZE - 1}

SqmValues == {Num(Fx(21, 0)), Num(Fx(3000, 0)), NotANumber}
TelescopeValues == {Num(Fx(200, 0)), Num(0), Num(-Fx(5, 0)), NotANumber}
MagnificationValues == {Num(Fx(100, 0)), Num(Fx(50, 0)), Num(0), Num(-Fx(1, 0)), NotANumber}
SurfaceBrightnessValues ==
    {None, Num(0), Num(Fx(13, 0)), Num(-Fx(2, 0)), Num(Fx(2600, 0)), NotANumber}
MagnitudeValues == {None, Num(Fx(10, 0)), NotANumber}
DiameterValues == {None, Num(Fx(20, 0)), Num(Fx(50, 0)), Num(-Fx(1, 0)), NotANumber}

OdmSqmValues == {Num(Fx(21, 0)), Num(Fx(3000, 0)), NotANumber}
OdmTelescopeValues == {Num(Fx(200, 0)), Num(0)}
OdmSurfaceBrightnessValues == {None, Num(0), Num(Fx(13, 0)), Num(Fx(2600, 0))}
OdmMagnitudeValues == {None, Num(Fx(10, 0)), NotANumber}
OdmDiameterValues == {None, Num(Fx(20, 0)), Num(Fx(50, 0))}
CandidateValues == {Num(Fx(50, 0)), Num(Fx(100, 0)), Num(Fx(200, 0)), Num(0), NotANumber}

MagnificationLists ==
    {List(q) : q \in SeqsUpTo(CandidateValues, MaxMagnifications)} \cup {NotAList}

---------------------------------------------------------------------------
(* Specifications                                                          *)

TcIdle == /\ tc_in = [sky |-> 0, ang |-> 0]
          /\ tc_out = Pending
          /\ tc_trace = NoTrace

CrIdle == /\ cr_in = [sqm |-> None, telescope_diameter |-> None, magnification |-> None,
                      surf_brightness |-> None, magnitude |-> None,
                      object_diameter1 |-> None, object_diameter2 |-> None]
          /\ cr_out = Pending

OdmIdle == /\ odm_in = [sqm |-> None, telescope_diameter |-> None,
                        surf_brightness |-> None, magnitude |-> None,
                        object_diameter1 |-> None, object_diameter2 |-> None,
                        magnifications |-> NotAList]
           /\ pc = "idle"
           /\ best_contrast = 0
           /\ best_x = 0
           /\ idx = 0
           /\ evaluated = 0
           /\ odm_err = ""

BtIdle == /\ bt_in = [fn |-> "", bortle |-> None, fst_offset |-> None]
          /\ bt_out = Pending
          /\ rt_out = Pending

MgIdle == /\ mg_in = [instrument |-> [fixedMagnification |-> None, diameter |-> 0, fd |-> 0],
                      eyepieces |-> <<>>]
          /\ mg_out = Pending

ApiIdle == /\ cache = <<>>
           /\ now = 0
           /\ api_in = [api_call |-> "", username |-> "", url |-> "",
                        requested |-> FALSE,
                        answer |-> [kind |-> "none",
                                    body |-> [kind |-> "none", items |-> <<>>]]]
           /\ api_out = Pending

LibIdle == BtIdle /\ MgIdle /\ ApiIdle

\* calculate_threshold_contrast applied to each pair of inputs
InitTC ==
    /\ tc_in \in [sky : SkyValues \cup GridSkyValues,
                  ang : AngularSizes \cup GridAngularSizes]
    /\ tc_out = Pending
    /\ tc_trace = NoTrace
    /\ CrIdle
    /\ OdmIdle
    /\ LibIdle

NextTC == ThresholdCall

SpecTC == InitTC /\ [][NextTC]_vars

\* contrast_reserve applied to each combination of arguments
InitCR ==
    /\ cr_in \in [sqm : SqmValues, telescope_diameter : TelescopeValues,
                  magnification : MagnificationValues,
                  surf_brightness : SurfaceBrightnessValues,
                  magnitude : MagnitudeValues,
                  object_diameter1 : DiameterValues, object_diameter2 : DiameterValues]
    /\ cr_out = Pending
    /\ TcIdle
    /\ OdmIdle
    /\ LibIdle

NextCR == ContrastReserveCall

SpecCR == InitCR /\ [][NextCR]_vars

\* optimal_detection_magnification run on each combination of arguments
Init ==
    /\ odm_in \in [sqm : OdmSqmValues, telescope_diameter : OdmTelescopeValues,
                   surf_brightness : OdmSurfaceBrightnessValues,
                   magnitude : OdmMagnitudeValues,
                   object_diameter1 : OdmDiameterValues,
                   object_diameter2 : OdmDiameterValues,
                   magnifications : MagnificationLists]
    /\ pc = "start"
    /\ best_contrast = 0
    /\ best_x = 0
    /\ idx = 0
    /\ evaluated = 0
    /\ odm_err = ""
    /\ TcIdle
    /\ CrIdle
    /\ LibIdle

Next == OdmValidate \/ OdmStep \/ OdmReturn

Spec == Init /\ [][Next]_vars

---------------------------------------------------------------------------
(* Properties of optimal_detection_magnification (checked under Spec)      *)

Candidates == odm_in.magnifications.items

\* the contrast_reserve score of the i-th candidate
ScoreAt(i) == CandidateContrast(odm_in, Candidates[i]).val

Sentinel == -Fx(999, 0)

\* C1: when the search returns and some candidate scores above the sentinel
\* -999, the value returned is the earliest candidate whose score is the
\* maximum over the whole list (a later candidate with the same score never
\* replaces it), and best_contrast is that maximum.
C1_EarliestMaximum ==
    (pc = "returned" /\ \E i \in 1..Len(Candidates) : ScoreAt(i) > Sentinel)
    => \E i \in 1..Len(Candidates) :
          /\ \A j \in 1..Len(Candidates) : ScoreAt(j) <= ScoreAt(i)
          /\ \A j \in 1..(i - 1) : ScoreAt(j) < ScoreAt(i)
          /\ best_x = Candidates[i].v
          /\ best_contrast = ScoreAt(i)

\* two different candidates tie for the maximum and the first one is returned
C1_Witness ==
    /\ pc = "returned"
    /\ Len(Candidates) >= 2
    /\ Candidates[1] # Candidates[2]
    /\ ScoreAt(1) = ScoreAt(2)
    /\ ScoreAt(1) > Sentinel
    /\ \A j \in 1..Len(Candidates) : ScoreAt(j) <= ScoreAt(1)
    /\ best_x = Candidates[1].v

\* C2 as claimed: whenever the search returns for a non-empty list, the value
\* returned is an element of the list (never the sentinel 0).
C2_AlwaysAnElement ==
    (pc = "returned" /\ Len(Candidates) > 0)
    => \E i \in 1..Len(Candidates) : best_x = Candidates[i].v

\* by how much the object's brightness, as the contrast formula uses it,
\* exceeds sqm
BrightnessExcess(a) ==
    IF Truthy(a.surf_brightness)
    THEN a.surf_brightness.v + Fx(8, 8900) - a.sqm.v
    ELSE surface_brightness(a.magnitude, a.object_diameter1, a.object_diameter2).val
         - a.sqm.v

\* C2 amended: whenever the search returns for a non-empty list and the
\* object's brightness (surface_brightness + 8.89, or the surface brightness
\* derived from the magnitude) exceeds sqm by at most 2400, the value returned
\* is an element of the list, and the single element of a singleton list.
C2_ElementWhenNotExtreme ==
    (pc = "returned" /\ Len(Candidates) > 0 /\ BrightnessExcess(odm_in) <= Fx(2400, 0))
    => /\ \E i \in 1..Len(Candidates) : best_x = Candidates[i].v
       /\ Len(Candidates) = 1 => best_x = Candidates[1].v

\* a singleton list on the magnitude path returns its element
C2_Witness ==
    /\ pc = "returned"
    /\ Len(Candidates) = 1
    /\ IsNone(odm_in.surf_brightness)
    /\ BrightnessExcess(odm_in) <= Fx(2400, 0)
    /\ best_x = Candidates[1].v
    /\ best_x > 0

\* the scalar arguments pass the checks of lines 320-349
ScalarsAccepted(a) ==
    /\ IsNum(a.sqm)
    /\ IsNum(a.telescope_diameter) /\ a.telescope_diameter.v > 0
    /\ IsNone(a.surf_brightness) \/ IsNum(a.surf_brightness)
    /\ ~IsNone(a.surf_brightness) \/ IsNone(a.magnitude) \/ IsNum(a.magnitude)
    /\ IsNone(a.object_diameter1) \/ (IsNum(a.object_diameter1) /\ a.object_diameter1.v > 0)
    /\ IsNone(a.object_diameter2) \/ (IsNum(a.object_diameter2) /\ a.object_diameter2.v > 0)

\* C3: the search returns 0 exactly when the list is empty or every
\* candidate scores at most -999; and with an empty list and scalar arguments
\* that pass validation it never raises and never evaluates contrast_reserve,
\* whether or not a brightness source can be resolved.
C3_ZeroIffNothingImproves ==
    /\ pc = "returned"
       => (best_x = 0 <=> \A i \in 1..Len(Candidates) : ScoreAt(i) <= Sentinel)
    /\ (odm_in.magnifications.is_list /\ Candidates = <<>> /\ ScalarsAccepted(odm_in))
       => /\ pc # "raised"
          /\ evaluated = 0
          /\ pc = "returned" => best_x = 0

\* the empty list returns 0 although no brightness source can be resolved
C3_Witness ==
    /\ pc = "returned"
    /\ Candidates = <<>>
    /\ IsNone(odm_in.surf_brightness) /\ IsNone(odm_in.magnitude)
    /\ IsNone(odm_in.object_diameter1) /\ IsNone(odm_in.object_diameter2)
    /\ best_x = 0
    /\ evaluated = 0

BadEntry(x) == ~IsNum(x) \/ x.v <= 0

ValidationMessages ==
    {"SQM must be a number", "Telescope diameter must be a number",
     "Telescope diameter must be positive",
     "Surface brightness must be a number or None",
     "Magnitude must be a number or None",
     "Object diameter 1 must be a number or None",
     "Object diameter 2 must be a number or None",
     "Object diameter 1 must be positive", "Object diameter 2 must be positive",
     "Magnifications must be a list",
     "Each magnification must be a number", "Each magnification must be positive"}

C10_State ==
    /\ (odm_in.magnifications.is_list
        /\ \E i \in 1..Len(Candidates) : BadEntry(Candidates[i]))
       => /\ pc \in {"start", "raised"}
          /\ evaluated = 0
          /\ pc = "raised" => odm_err \in ValidationMessages
          /\ (pc = "raised" /\ ScalarsAccepted(odm_in))
             => odm_err \in {"Each magnification must be a number",
                             "Each magnification must be positive"}
    /\ (pc = "raised" /\ evaluated > 0)
       => /\ evaluated = idx + 1
          /\ CandidateContrast(odm_in, Candidates[idx + 1]) = Raise(odm_err)

\* C10: a list with a bad entry (not a number, or <= 0) at any position makes
\* the search raise a validation error before any contrast_reserve call; an
\* error of a contrast_reserve call becomes the error of the search; and once
\* the search has raised nothing more is evaluated and nothing is returned.
C10_BadEntryAborts ==
    /\ [](C10_State)
    /\ [][pc = "raised" => UNCHANGED odmVars]_vars

\* a bad entry after a valid candidate: the search raises with nothing evaluated
C10_Witness ==
    /\ pc = "raised"
    /\ Len(Candidates) = 2
    /\ ~BadEntry(Candidates[1])
    /\ BadEntry(Candidates[2])
    /\ ScalarsAccepted(odm_in)
    /\ odm_err = "Each magnification must be positive"
    /\ evaluated = 0

---------------------------------------------------------------------------
(* Properties of contrast_reserve (checked under SpecCR)                   *)

CrReturned == cr_out.st = "returned"
CrDone == cr_out.st # "pending"

SwappedDiameters(a) ==
    [a EXCEPT !.object_diameter1 = a.object_diameter2,
              !.object_diameter2 = a.object_diameter1]

\* C4: a value returned by contrast_reserve is the value it returns with the
\* two object diameters exchanged, on the surface-brightness path as on the
\* magnitude path.
C4_DiameterOrderInvariant ==
    CrReturned => cr_out = CallContrastReserve(SwappedDiameters(cr_in))

\* C7: with surface_brightness None and magnitude None contrast_reserve
\* raises, whatever the other arguments are; it returns no value.
C7_NoBrightnessSourceRaises ==
    (CrDone /\ IsNone(cr_in.surf_brightness) /\ IsNone(cr_in.magnitude))
    => cr_out.st = "raised"

\* brightness and both diameters are None, the rest is valid
C7_Witness ==
    /\ cr_out = Raise("Object diameters must be provided to calculate contrast reserve")
    /\ IsNone(cr_in.surf_brightness) /\ IsNone(cr_in.magnitude)
    /\ IsNone(cr_in.object_diameter1) /\ IsNone(cr_in.object_diameter2)
    /\ IsNum(cr_in.sqm)
    /\ cr_in.telescope_diameter.v > 0
    /\ cr_in.magnification.v > 0

\* the surface brightness derived from the magnitude and the diameters
DerivedSurfaceBrightness(a) ==
    surface_brightness(a.magnitude, a.object_diameter1, a.object_diameter2).val

ThresholdOfCall(a) ==
    MagnifiedThresholdContrast(
        calculate_initial_parameters(a.sqm, a.telescope_diameter,
                                     a.object_diameter1, a.object_diameter2).val,
        a.magnification)

C9_RequiredArgumentsCheckedFirst ==
    (CrDone /\ IsNum(cr_in.sqm) /\ IsNum(cr_in.telescope_diameter)
            /\ IsNum(cr_in.magnification))
    => /\ cr_in.telescope_diameter.v <= 0
          => cr_out = Raise("Telescope diameter must be positive")
       /\ (cr_in.telescope_diameter.v > 0 /\ cr_in.magnification.v <= 0)
          => cr_out = Raise("Magnification must be positive")

\* a non-positive telescope diameter is named although the surface brightness
\* is not a number and the diameters are missing
C9_Witness ==
    /\ cr_out = Raise("Telescope diameter must be positive")
    /\ IsNum(cr_in.sqm) /\ IsNum(cr_in.magnification)
    /\ cr_in.telescope_diameter = Num(-Fx(5, 0))
    /\ cr_in.surf_brightness = NotANumber
    /\ IsNone(cr_in.object_diameter1) /\ IsNone(cr_in.object_diameter2)

---------------------------------------------------------------------------
(* Properties of calculate_threshold_contrast (checked under SpecTC)       *)

\* C5: for every sky brightness and every angular size > 0 the call returns
\* a value in [-37, 37].
C5_ThresholdWithinClamp ==
    (tc_out.st # "pending" /\ tc_in.ang > 0)
    => /\ tc_out.st = "returned"
       /\ tc_out.val >= -(max_log_contrast * Scale)
       /\ tc_out.val <= max_log_contrast * Scale

\* a sky brightness beyond the last row, where the extrapolation is cut at 37
C5_Witness ==
    /\ tc_out.st = "returned"
    /\ tc_in.sky > LtcAt(LTC_SIZE - 1, 0)
    /\ tc_out.val = max_log_contrast * Scale

\* C6: for a sky brightness below LTC[0][0] the value returned is the value
\* returned for LTC[0][0] and the same angular size.
C6_ClampedBelowTable ==
    (tc_out.st = "returned" /\ tc_in.sky < LtcAt(0, 0))
    => tc_out.val = calculate_threshold_contrast(LtcAt(0, 0), tc_in.ang)

---------------------------------------------------------------------------
(* A surface brightness of 0 (checked under SpecCR)                        *)

\* the required arguments are valid and both diameters are positive numbers
ValidButBrightness(a) ==
    /\ IsNum(a.sqm)
    /\ IsNum(a.telescope_diameter) /\ a.telescope_diameter.v > 0
    /\ IsNum(a.magnification) /\ a.magnification.v > 0
    /\ IsNum(a.object_diameter1) /\ a.object_diameter1.v > 0
    /\ IsNum(a.object_diameter2) /\ a.object_diameter2.v > 0

\* C11: a surface_brightness of 0 is treated as absent: with valid diameters
\* and magnitude None the call raises the "magnitude must be provided" error,
\* and with a magnitude given (or None) its outcome is that of the call with
\* surface_brightness None; a non-zero surface_brightness, negative ones
\* included, makes the outcome independent of magnitude.
C11_ZeroSurfaceBrightnessIsAbsent ==
    CrDone
    => /\ (cr_in.surf_brightness = Num(0) /\ IsNone(cr_in.magnitude)
           /\ ValidButBrightness(cr_in))
          => cr_out = Raise("Magnitude must be provided if surface brightness is not given")
       /\ (cr_in.surf_brightness = Num(0) /\ cr_in.magnitude # NotANumber)
          => cr_out = CallContrastReserve([cr_in EXCEPT !.surf_brightness = None])
       /\ (IsNum(cr_in.surf_brightness) /\ cr_in.surf_brightness.v # 0)
          => \A m \in MagnitudeValues :
                 cr_out = CallContrastReserve([cr_in EXCEPT !.magnitude = m])

\* a call with surface_brightness 0 and a magnitude that returned a value
C11_Witness ==
    /\ CrReturned
    /\ cr_in.surf_brightness = Num(0)
    /\ IsNum(cr_in.magnitude)
    /\ cr_out = CallContrastReserve([cr_in EXCEPT !.surf_brightness = None])

---------------------------------------------------------------------------
(* Missing object diameters (checked under SpecCR)                         *)

\* the arguments pass validate_contrast_reserve_inputs
PassesValidation(a) ==
    /\ IsNum(a.sqm)
    /\ IsNum(a.telescope_diameter) /\ a.telescope_diameter.v > 0
    /\ IsNum(a.magnification) /\ a.magnification.v > 0
    /\ IsNone(a.surf_brightness) \/ IsNum(a.surf_brightness)
    /\ IsNone(a.surf_brightness) => (IsNone(a.magnitude) \/ IsNum(a.magnitude))
    /\ IsNone(a.object_diameter1) \/ (IsNum(a.object_diameter1) /\ a.object_diameter1.v > 0)
    /\ IsNone(a.object_diameter2) \/ (IsNum(a.object_diameter2) /\ a.object_diameter2.v > 0)

\* C18: with arguments that pass validation, a call in which object_diameter1
\* or object_diameter2 (or both) is None raises the "object diameters must be
\* provided" error, with a non-zero surface_brightness as without one.
C18_DiametersRequiredOnEveryPath ==
    (CrDone /\ PassesValidation(cr_in)
            /\ (IsNone(cr_in.object_diameter1) \/ IsNone(cr_in.object_diameter2)))
    => cr_out = Raise("Object diameters must be provided to calculate contrast reserve")

\* only the second diameter is missing and a non-zero surface brightness is
\* supplied
C18_Witness ==
    /\ cr_out = Raise("Object diameters must be provided to calculate contrast reserve")
    /\ PassesValidation(cr_in)
    /\ IsNum(cr_in.surf_brightness) /\ cr_in.surf_brightness.v # 0
    /\ IsNum(cr_in.object_diameter1)
    /\ IsNone(cr_in.object_diameter2)

\* C16: for every sky brightness and every angular size > 0 the call returns
\* a value; the rows it reads satisfy 0 <= row_a <= LTC_SIZE - 2 and
\* row_b = row_a + 1, the column index satisfies
\* 0 <= angle_index <= ANGLE_SIZE - 2, so that ANGLE[angle_index],
\* ANGLE[angle_index + 1], LTC[row][angle_index + 1] and
\* LTC[row][angle_index + 2] exist, and the scan over ANGLE has stopped after
\* at most ANGLE_SIZE steps.
C16_IndicesWithinTables ==
    (tc_out.st # "pending" /\ tc_in.ang > 0)
    => /\ tc_out.st = "returned"
       /\ 0 <= tc_trace.row_a /\ tc_trace.row_a <= LTC_SIZE - 2
       /\ tc_trace.row_b = tc_trace.row_a + 1
       /\ 0 <= tc_trace.angle_index /\ tc_trace.angle_index <= ANGLE_SIZE - 2
       /\ {tc_trace.angle_index + 1, tc_trace.angle_index + 2} \subseteq DOMAIN ANGLE
       /\ {tc_trace.row_a + 1, tc_trace.row_b + 1} \subseteq DOMAIN LTC
       /\ \A row \in {tc_trace.row_a, tc_trace.row_b} :
              {tc_trace.angle_index + 2, tc_trace.angle_index + 3}
                  \subseteq DOMAIN LTC[row + 1]
       /\ 0 <= tc_trace.scanned /\ tc_trace.scanned <= ANGLE_SIZE

\* a sky brighter than the last row with an angular size beyond the last
\* breakpoint: the scan runs through all of ANGLE and both indices are clamped
C16_Witness ==
    /\ tc_out.st = "returned"
    /\ tc_in.sky > LtcAt(LTC_SIZE - 1, 0)
    /\ Log10(tc_in.ang) > AngleAt(ANGLE_SIZE - 1)
    /\ tc_trace.scanned = ANGLE_SIZE
    /\ tc_trace.row_a = LTC_SIZE - 2
    /\ tc_trace.angle_index = ANGLE_SIZE - 2

---------------------------------------------------------------------------
(* The calibration table at its grid points (checked under SpecTC)         *)

\* the call is at row r of LTC and at breakpoint k of ANGLE
AtGridPoint(r, k) ==
    /\ tc_out.st = "returned"
    /\ tc_in.sky = LtcAt(r, 0)
    /\ tc_in.ang = Pow10(AngleAt(k))

\* the column index found for a log angular size strictly between the first
\* and the last breakpoint straddles it, and the fraction lies in [0, 1]
ColumnStraddles ==
    (/\ tc_out.st = "returned"
     /\ Log10(tc_in.ang) > AngleAt(0)
     /\ Log10(tc_in.ang) < AngleAt(ANGLE_SIZE - 1))
    => /\ tc_trace.log_angular_size = Log10(tc_in.ang)
       /\ AngleAt(tc_trace.angle_index) <= tc_trace.log_angular_size
       /\ tc_trace.log_angular_size <= AngleAt(tc_trace.angle_index + 1)
       /\ 0 <= tc_trace.angle_fraction /\ tc_trace.angle_fraction <= Scale

\* C17 as claimed: at every row label LTC[r][0] and every angular size
\* 10 ** ANGLE[k] the call returns exactly LTC[r][k + 1] (clamped), and the
\* column index straddles a log angular size between the breakpoints.
C17_GridPointsExact ==
    /\ \A r \in 0 .. LTC_SIZE - 1 : \A k \in 0 .. ANGLE_SIZE - 1 :
           AtGridPoint(r, k) => tc_out.val = ClampLogContrast(LtcAt(r, k + 1))
    /\ ColumnStraddles

\* the largest distance from the table the amended claim allows: 0.01
GridTolerance == Fx(0, 100)

\* C17 amended: at every row label LTC[r][0] and every angular size
\* 10 ** ANGLE[k] the call returns LTC[r][k + 1] (clamped) up to rounding
\* error, within 0.01 and not necessarily exactly; the column index straddles
\* a log angular size strictly between the first and the last breakpoint and
\* the fraction lies in [0, 1].
C17_GridPointsWithinRounding ==
    /\ \A r \in 0 .. LTC_SIZE - 1 : \A k \in 0 .. ANGLE_SIZE - 1 :
           AtGridPoint(r, k)
           => Abs(tc_out.val - ClampLogContrast(LtcAt(r, k + 1))) <= GridTolerance
    /\ ColumnStraddles

\* a grid point at which log10(10 ** ANGLE[k]) does not give ANGLE[k] back
\* and the value returned is near the table's but not equal to it
C17_Witness ==
    \E r \in 0 .. LTC_SIZE - 1 : \E k \in 1 .. ANGLE_SIZE - 1 :
        /\ AtGridPoint(r, k)
        /\ Log10(tc_in.ang) # AngleAt(k)
        /\ tc_out.val # LtcAt(r, k + 1)
        /\ Abs(tc_out.val - LtcAt(r, k + 1)) <= GridTolerance

---------------------------------------------------------------------------
(* Bortle conversions (src/pydeepskylog/magnitude.py)                      *)

\* a Python int, as opposed to the float Num(v)
PyInt(n) == [k |-> "int", v |-> n]

\* isinstance(x, int)
IsInt(x) == x.k = "int"

\* lines 45-48 and 60-67
nelm_to_bortle(nelm) ==
    IF ~(IsNum(nelm) \/ IsInt(nelm)) THEN Raise("NELM must be a number")
    ELSE LET v == IF IsInt(nelm) THEN nelm.v * Scale ELSE nelm.v
         IN  IF v < 0 \/ v > Fx(6, 7000) THEN Raise("NELM must be between 0 and 6.7")
             ELSE IF v < Fx(3, 6000) THEN Ret(9)
             ELSE IF v < Fx(3, 9000) THEN Ret(8)
             ELSE IF v < Fx(4, 4000) THEN Ret(7)
             ELSE IF v < Fx(4, 9000) THEN Ret(6)
             ELSE IF v < Fx(5, 8000) THEN Ret(5)
             ELSE IF v < Fx(6, 3000) THEN Ret(4)
             ELSE IF v < Fx(6, 4000) THEN Ret(3)
             ELSE IF v < Fx(6, 5000) THEN Ret(2)
             ELSE Ret(1)

\* lines 78-100
sqm_to_bortle(sqm) ==
    IF ~(IsNum(sqm) \/ IsInt(sqm)) THEN Raise("SQM must be a number")
    ELSE LET v == IF IsInt(sqm) THEN sqm.v * Scale ELSE sqm.v
         IN  IF v < 0 \/ v > Fx(22, 0) THEN Raise("SQM must be between 0 and 22")
             ELSE IF v <= Fx(17, 5000) THEN Ret(9)
             ELSE IF v <= Fx(18, 0) THEN Ret(8)
             ELSE IF v <= Fx(18, 5000) THEN Ret(7)
             ELSE IF v <= Fx(19, 1000) THEN Ret(6)
             ELSE IF v <= Fx(20, 4000) THEN Ret(5)
             ELSE IF v <= Fx(21, 3000) THEN Ret(4)
             ELSE IF v <= Fx(21, 5000) THEN Ret(3)
             ELSE IF v <= Fx(21, 7000) THEN Ret(2)
             ELSE Ret(1)

\* lines 150-160
bortle_nelm_map ==
    <<Fx(6, 6000), Fx(6, 5000), Fx(6, 4000), Fx(6, 1000), Fx(5, 4000),
      Fx(4, 7000), Fx(4, 2000), Fx(3, 8000), Fx(3, 6000)>>

\* lines 179-189
bortle_sqm_map ==
    <<Fx(21, 8500), Fx(21, 6000), Fx(21, 4000), Fx(20, 8500), Fx(19, 7500),
      Fx(18, 8000), Fx(18, 2500), Fx(17, 7500), Fx(17, 5000)>>

\* the number a numeric argument stands for
FloatOf(x) == IF IsInt(x) THEN x.v * Scale ELSE x.v

\* a variant that adds the offset
bortle_to_nelm_adding_offset(bortle, fst_offset) ==
    IF ~IsInt(bortle) THEN Raise("Bortle must be an integer")
    ELSE IF ~(1 <= bortle.v /\ bortle.v <= 9) THEN Raise("Bortle must be between 1 and 9")
    ELSE IF ~(IsNum(fst_offset) \/ IsInt(fst_offset)) THEN Raise("fst_offset must be a number")
    ELSE Ret(Add(bortle_nelm_map[bortle.v], FloatOf(fst_offset)))

\* lines 143-162
bortle_to_nelm(bortle, fst_offset) ==
    IF ~IsInt(bortle) THEN Raise("Bortle must be an integer")
    ELSE IF ~(1 <= bortle.v /\ bortle.v <= 9) THEN Raise("Bortle must be between 1 and 9")
    ELSE IF ~(IsNum(fst_offset) \/ IsInt(fst_offset)) THEN Raise("fst_offset must be a number")
    ELSE Ret(Sub(bortle_nelm_map[bortle.v], FloatOf(fst_offset)))

\* lines 174-191
bortle_to_sqm(bortle) ==
    IF ~IsInt(bortle) THEN Raise("Bortle must be an integer")
    ELSE IF ~(1 <= bortle.v /\ bortle.v <= 9) THEN Raise("Bortle must be between 1 and 9")
    ELSE Ret(bortle_sqm_map[bortle.v])

\* the call of bortle_to_nelm or bortle_to_sqm
BortleCall ==
    /\ bt_out.st = "pending"
    /\ bt_out' = IF bt_in.fn = "bortle_to_nelm"
                 THEN bortle_to_nelm(bt_in.bortle, bt_in.fst_offset)
                 ELSE bortle_to_sqm(bt_in.bortle)
    /\ UNCHANGED <<bt_in, rt_out, tcVars, crVars, odmVars, mgVars, apiVars>>

\* the value returned is converted back by nelm_to_bortle or sqm_to_bortle
BortleBack ==
    /\ bt_out.st = "returned"
    /\ rt_out.st = "pending"
    /\ rt_out' = IF bt_in.fn = "bortle_to_nelm"
                 THEN nelm_to_bortle(Num(bt_out.val))
                 ELSE sqm_to_bortle(Num(bt_out.val))
    /\ UNCHANGED <<bt_in, bt_out, tcVars, crVars, odmVars, mgVars, apiVars>>

\* Bortle arguments inside and outside 1..9, a float and None
BortleValues == {PyInt(b) : b \in -1 .. 10} \cup {Num(Fx(3, 0)), None}

\* the default 0.0, offsets of either sign, an int and a string
OffsetValues ==
    {Num(0), Num(Fx(0, 3000)), Num(-Fx(0, 7000)), Num(Fx(2, 5000)), PyInt(1), NotANumber}

InitBortle ==
    /\ bt_in \in [fn : {"bortle_to_nelm"}, bortle : BortleValues, fst_offset : OffsetValues]
                 \cup [fn : {"bortle_to_sqm"}, bortle : BortleValues, fst_offset : {None}]
    /\ bt_out = Pending
    /\ rt_out = Pending
    /\ TcIdle
    /\ CrIdle
    /\ OdmIdle
    /\ MgIdle
    /\ ApiIdle

NextBortle == BortleCall \/ BortleBack

SpecBortle == InitBortle /\ [][NextBortle]_vars

BtDone == bt_out.st # "pending"
InRange(b) == IsInt(b) /\ 1 <= b.v /\ b.v <= 9

\* C14: for an integer Bortle value outside 1..9, such as 0 or 10,
\* bortle_to_nelm and bortle_to_sqm return 0.0.
C14_OutOfRangeGivesZero ==
    (BtDone /\ IsInt(bt_in.bortle) /\ ~InRange(bt_in.bortle)
            /\ bt_in.fst_offset \in {None, Num(0)})
    => bt_out = Ret(0)

\* C15: for every Bortle value b in 1..9 and every numeric fst_offset,
\* bortle_to_nelm(b, fst_offset) is bortle_to_nelm(b) minus fst_offset, and
\* bortle_to_nelm(b) is the table 6.6, 6.5, 6.4, 6.1, 5.4, 4.7, 4.2, 3.8, 3.6,
\* which is positive and non-increasing in b.
C15_OffsetSubtractedFromTable ==
    LET table == <<66, 65, 64, 61, 54, 47, 42, 38, 36>>
        default(b) == bortle_to_nelm(PyInt(b), Num(0))
    IN  /\ (BtDone /\ bt_in.fn = "bortle_to_nelm" /\ InRange(bt_in.bortle)
                   /\ (IsNum(bt_in.fst_offset) \/ IsInt(bt_in.fst_offset)))
           => /\ bt_out = Ret(Sub(default(bt_in.bortle.v).val, FloatOf(bt_in.fst_offset)))
              /\ default(bt_in.bortle.v) = Ret(table[bt_in.bortle.v] * (Scale \div 10))
              /\ default(bt_in.bortle.v).val > 0
              /\ \A b \in 1 .. bt_in.bortle.v : default(b).val >= default(bt_in.bortle.v).val

\* Bortle 5 with an offset of 0.3: 5.4 - 0.3 = 5.1
C15_Witness ==
    /\ bt_in.fn = "bortle_to_nelm"
    /\ bt_in.bortle = PyInt(5)
    /\ bt_in.fst_offset = Num(Fx(0, 3000))
    /\ bt_out = Ret(Fx(5, 1000))

\* C20: for every Bortle value b in 1..9 (and no offset), converting the
\* table value of b back gives b: nelm_to_bortle(bortle_to_nelm(b)) = b and
\* sqm_to_bortle(bortle_to_sqm(b)) = b.
C20_TablesRoundTrip ==
    (rt_out.st # "pending" /\ InRange(bt_in.bortle) /\ bt_in.fst_offset \in {None, Num(0)})
    => rt_out = Ret(bt_in.bortle.v)

---------------------------------------------------------------------------
(* calculate_magnifications (src/pydeepskylog/deepskylog_interface.py)     *)

\* Python's truth value of None, a number or a bool
PyTruthy(x) == ~IsNone(x) /\ x.v # 0

\* lines 96-99: the loop over the eyepieces from eyepiece i on, magnifications
\* being the list built so far
RECURSIVE AppendMagnifications(_, _, _, _)
AppendMagnifications(instrument, eyepieces, i, magnifications) ==
    IF i > Len(eyepieces) THEN Ret(magnifications)
    ELSE IF ~PyTruthy(eyepieces[i].eyepieceactive)
    THEN AppendMagnifications(instrument, eyepieces, i + 1, magnifications)
    ELSE IF eyepieces[i].focal_length_mm = 0
    THEN Raise("float division by zero")
    ELSE AppendMagnifications(
             instrument, eyepieces, i + 1,
             Append(magnifications,
                    Div(Mul(instrument.diameter, instrument.fd),
                        eyepieces[i].focal_length_mm)))

\* a variant that takes every eyepiece, active or not
calculate_magnifications_every_eyepiece(instrument, eyepieces) ==
    IF PyTruthy(instrument.fixedMagnification)
    THEN Ret(<<instrument.fixedMagnification.v>>)
    ELSE AppendMagnifications(
             instrument,
             [i \in 1 .. Len(eyepieces) |->
                  [eyepieces[i] EXCEPT !.eyepieceactive = PyInt(1)]],
             1, <<>>)

\* lines 91-101
calculate_magnifications(instrument, eyepieces) ==
    IF PyTruthy(instrument.fixedMagnification)
    THEN Ret(<<instrument.fixedMagnification.v>>)
    ELSE AppendMagnifications(instrument, eyepieces, 1, <<>>)

MagnificationsCall ==
    /\ mg_out.st = "pending"
    /\ mg_out' = calculate_magnifications(mg_in.instrument, mg_in.eyepieces)
    /\ UNCHANGED <<mg_in, tcVars, crVars, odmVars, btVars, apiVars>>

\* longest list of eyepieces
MaxEyepieces == 3

\* instruments without a fixed magnification (None, or 0) and with one
Instruments ==
    [fixedMagnification : {None, Num(0), Num(Fx(7, 0))},
     diameter : {Fx(200, 0), Fx(80, 0)},
     fd : {Fx(5, 0), Fx(6, 3000)}]

\* active and inactive eyepieces, one of them with a focal length of 0
Eyepieces ==
    [eyepieceactive : {PyInt(1), PyInt(0)}, focal_length_mm : {Fx(10, 0), Fx(25, 0)}]
    \cup {[eyepieceactive |-> PyInt(1), focal_length_mm |-> 0]}

InitMagnifications ==
    /\ mg_in \in [instrument : Instruments, eyepieces : SeqsUpTo(Eyepieces, MaxEyepieces)]
    /\ mg_out = Pending
    /\ TcIdle
    /\ CrIdle
    /\ OdmIdle
    /\ BtIdle
    /\ ApiIdle

NextMagnifications == MagnificationsCall

SpecMagnifications == InitMagnifications /\ [][NextMagnifications]_vars

IsActive(eyepiece) == eyepiece.eyepieceactive.v # 0

\* the active eyepieces, in the order of the input
ActiveEyepieces == SelectSeq(mg_in.eyepieces, IsActive)

\* fixedMagnification is set: neither None nor 0
FixedMagnificationSet ==
    /\ ~IsNone(mg_in.instrument.fixedMagnification)
    /\ mg_in.instrument.fixedMagnification.v # 0

\* C12: with fixedMagnification set the call returns [fixedMagnification],
\* whatever the eyepieces are; otherwise (the focal lengths of the active
\* eyepieces being non-zero) it returns diameter * fd / focal_length_mm of
\* the active eyepieces in the order of the input: one entry for each active
\* eyepiece, none if no eyepiece is active.
C12_FixedOrActiveEyepieces ==
    mg_out.st # "pending"
    => /\ FixedMagnificationSet
          => mg_out = Ret(<<mg_in.instrument.fixedMagnification.v>>)
       /\ (/\ ~FixedMagnificationSet
           /\ \A i \in 1 .. Len(ActiveEyepieces) : ActiveEyepieces[i].focal_length_mm # 0)
          => /\ mg_out.st = "returned"
             /\ Len(mg_out.val) = Len(ActiveEyepieces)
             /\ \A i \in 1 .. Len(ActiveEyepieces) :
                    mg_out.val[i] = Div(Mul(mg_in.instrument.diameter, mg_in.instrument.fd),
                                        ActiveEyepieces[i].focal_length_mm)
             /\ ActiveEyepieces = <<>> => mg_out.val = <<>>

\* 200 mm at f/5 with a 25 mm, an inactive and a 10 mm eyepiece: 40x and 100x
C12_Witness ==
    /\ ~FixedMagnificationSet
    /\ mg_in.instrument.diameter = Fx(200, 0)
    /\ mg_in.instrument.fd = Fx(5, 0)
    /\ Len(mg_in.eyepieces) = 3
    /\ mg_in.eyepieces[1] = [eyepieceactive |-> PyInt(1), focal_length_mm |-> Fx(25, 0)]
    /\ ~IsActive(mg_in.eyepieces[2])
    /\ mg_in.eyepieces[3] = [eyepieceactive |-> PyInt(1), focal_length_mm |-> Fx(10, 0)]
    /\ mg_out = Ret(<<Fx(40, 0), Fx(100, 0)>>)

---------------------------------------------------------------------------
(* The inventory client and its cache                                      *)
(* (src/pydeepskylog/deepskylog_interface.py)                              *)

DSL_API_BASE_URL == "https://test.deepskylog.org/api/"

\* seconds an entry of the cache is served for
DSL_API_CACHE_TTL == 300

\* line 159: the url, which is the key of the cache
ApiUrl(api_call, username) == DSL_API_BASE_URL \o api_call \o "/" \o username

\* a variant that serves an entry up to and including its 300th second
CacheFreshInclusive(cache_entry, t) == t - cache_entry.timestamp <= DSL_API_CACHE_TTL

\* line 166
CacheFresh(cache_entry, t) == t - cache_entry.timestamp < DSL_API_CACHE_TTL

\* the endpoints whose data is validated (line 183)
ValidatedEndpoints == {"instrument", "eyepieces", "lenses", "filters"}

\* a variant that caches whatever list or dict the server sent
RequestUnvalidated(api_call, answer) ==
    IF answer.kind \in {"connection_error", "timeout"} THEN Raise("ConnectionError")
    ELSE IF answer.kind = "request_exception" THEN Raise("RuntimeError")
    ELSE IF answer.kind \in {"status_401", "status_403"} THEN Raise("PermissionError")
    ELSE IF answer.kind = "status_500" THEN Raise("RuntimeError")
    ELSE IF answer.kind = "undecodable" THEN Raise("RuntimeError")
    ELSE IF answer.body.kind \notin {"dict", "list"} THEN Raise("RuntimeError")
    ELSE Ret(answer.body)

\* lines 169-201: requests.get and what follows it, given the server's answer
Request(api_call, answer) ==
    IF answer.kind \in {"connection_error", "timeout"} THEN Raise("ConnectionError")
    ELSE IF answer.kind = "request_exception" THEN Raise("RuntimeError")
    ELSE IF answer.kind \in {"status_401", "status_403"} THEN Raise("PermissionError")
    ELSE IF answer.kind = "status_500" THEN Raise("RuntimeError")
    ELSE IF answer.kind = "undecodable" THEN Raise("RuntimeError")
    ELSE IF answer.body.kind \notin {"dict", "list"} THEN Raise("RuntimeError")
    ELSE IF api_call \in ValidatedEndpoints /\ answer.body.items = <<>>
    THEN Raise("RuntimeError")
    ELSE IF api_call \in ValidatedEndpoints /\ answer.body.items[1] # "dict"
    THEN Raise("RuntimeError")
    ELSE Ret(answer.body)

\* lines 159-201: the outcome of the call, the cache it leaves and whether it
\* issued an HTTP request
dsl_api_call(c, api_call, username, t, answer) ==
    LET api_url == ApiUrl(api_call, username)
    IN  IF api_url \in DOMAIN c /\ CacheFresh(c[api_url], t)
        THEN [out |-> Ret(c[api_url].data), cache |-> c, requested |-> FALSE]
        ELSE LET r == Request(api_call, answer)
             IN  [out |-> r,
                  cache |-> IF r.st = "returned"
                            THEN (api_url :> [timestamp |-> t, data |-> r.val]) @@ c
                            ELSE c,
                  requested |-> TRUE]

\* JSON bodies: a list or a dict (its values in order) of entries that are
\* dicts or strings, or a scalar
NoBody == [kind |-> "none", items |-> <<>>]
JsonBodies ==
    [kind : {"list"}, items : {<<>>, <<"dict">>, <<"str">>, <<"dict", "dict">>, <<"dict", "str">>}]
    \cup [kind : {"dict"}, items : {<<>>, <<"dict">>, <<"str">>}]
    \cup {[kind |-> "scalar", items |-> <<>>]}

\* what the server and the transport can answer to a request
ServerAnswers ==
    [kind : {"json"}, body : JsonBodies]
    \cup [kind : {"status_401", "status_403", "status_500", "undecodable",
                  "connection_error", "timeout", "request_exception"},
          body : {NoBody}]

NoAnswer == [kind |-> "none", body |-> NoBody]

\* dsl_instruments and dsl_eyepieces for one user, dsl_instruments for another
ApiCalls == {<<"instrument", "alice">>, <<"eyepieces", "alice">>, <<"instrument", "bob">>}

\* the times at which calls are made
Times == {0, DSL_API_CACHE_TTL - 1, DSL_API_CACHE_TTL}

\* a call of dsl_instruments, dsl_eyepieces, ... at the present time
ApiCall ==
    \E call \in ApiCalls : \E answer \in ServerAnswers :
        LET r == dsl_api_call(cache, call[1], call[2], now, answer)
        IN  /\ api_in' = [api_call |-> call[1], username |-> call[2],
                          url |-> ApiUrl(call[1], call[2]),
                          requested |-> r.requested,
                          answer |-> IF r.requested THEN answer ELSE NoAnswer]
            /\ api_out' = r.out
            /\ cache' = r.cache
            /\ UNCHANGED <<now, tcVars, crVars, odmVars, btVars, mgVars>>

\* time passes between two calls
Tick ==
    /\ \E t \in Times : t > now /\ now' = t
    /\ UNCHANGED <<cache, api_in, api_out, tcVars, crVars, odmVars, btVars, mgVars>>

InitApi ==
    /\ cache = <<>>
    /\ now = 0
    /\ api_in = [api_call |-> "", username |-> "", url |-> "", requested |-> FALSE,
                 answer |-> NoAnswer]
    /\ api_out = Pending
    /\ TcIdle
    /\ CrIdle
    /\ OdmIdle
    /\ BtIdle
    /\ MgIdle

NextApi == ApiCall \/ Tick

SpecApi == InitApi /\ [][NextApi]_vars

---------------------------------------------------------------------------
(* Properties of the cache (checked under SpecApi)                         *)

\* the step is a call: no time passes
IsCallStep == now' = now

\* the url of the call the step makes has an entry younger than 300 seconds
HitsCache ==
    /\ api_in'.url \in DOMAIN cache
    /\ now - cache[api_in'.url].timestamp < 300

\* the url of the call the step makes has an entry of 300 seconds or more
FindsExpired ==
    /\ api_in'.url \in DOMAIN cache
    /\ now - cache[api_in'.url].timestamp >= 300

\* the entries of the other urls are what they were
OtherEntriesKept ==
    \A u \in DOMAIN cache \ {api_in'.url} : u \in DOMAIN cache' /\ cache'[u] = cache[u]

\* distinct (endpoint, username) pairs have distinct urls
UrlsDistinct ==
    \A c1 \in ApiCalls : \A c2 \in ApiCalls :
        c1 # c2 => ApiUrl(c1[1], c1[2]) # ApiUrl(c2[1], c2[2])

\* what C13 says of one call
C13_Step ==
    IsCallStep
    => /\ api_in'.url = ApiUrl(api_in'.api_call, api_in'.username)
       /\ HitsCache => /\ api_out' = Ret(cache[api_in'.url].data)
                       /\ ~api_in'.requested
                       /\ cache' = cache
       /\ FindsExpired
          => /\ api_in'.requested
             /\ api_out'.st = "returned"
                => /\ api_out'.val = api_in'.answer.body
                   /\ cache'[api_in'.url] = [timestamp |-> now, data |-> api_in'.answer.body]
       /\ OtherEntriesKept

\* C13: a call for a url whose entry is younger than 300 seconds returns the
\* entry's payload, issues no HTTP request and leaves the cache (the entry's
\* timestamp included) as it was; a call for a url whose entry is 300 seconds
\* old or older issues a request and, if it succeeds, replaces the entry by
\* the time of the call and the new payload; no call changes the entry of
\* another endpoint or username, whose url is a different key.
C13_CacheTimeBoundedAndKeyedByUrl ==
    /\ [](UrlsDistinct)
    /\ [][C13_Step]_vars

\* 299 seconds after it was fetched, a payload has been served from the cache
\* with no request, while another url has an entry of its own
C13_Witness ==
    /\ api_out.st = "returned"
    /\ ~api_in.requested
    /\ api_in.url \in DOMAIN cache
    /\ cache[api_in.url].timestamp = 0
    /\ now = 299
    /\ api_out.val = cache[api_in.url].data
    /\ \E u \in DOMAIN cache : u # api_in.url /\ cache[u].data # api_out.val

\* the payload passes the checks of lines 180-189
ValidPayload(data) ==
    /\ data.kind \in {"dict", "list"}
    /\ data.items # <<>>
    /\ data.items[1] = "dict"

\* the error the claim names for each answer that is not a valid payload
ErrorOf(answer) ==
    IF answer.kind \in {"status_401", "status_403"} THEN "PermissionError"
    ELSE IF answer.kind \in {"connection_error", "timeout"} THEN "ConnectionError"
    ELSE "RuntimeError"

\* what C19 says of one call
C19_Step ==
    IsCallStep
    => /\ api_out'.st = "raised"
          => /\ cache' = cache
             /\ api_in'.requested
             /\ api_out'.err = ErrorOf(api_in'.answer)
       /\ (api_in'.requested /\ ~(api_in'.answer.kind = "json"
                                  /\ ValidPayload(api_in'.answer.body)))
          => api_out'.st = "raised"
       /\ api_out'.st = "returned"
          => /\ ValidPayload(api_out'.val)
             /\ api_in'.requested \/ HitsCache

\* C19: a call that ends in an error (PermissionError for status 401 or 403,
\* ConnectionError for a connection error or a timeout, RuntimeError for
\* another HTTP or request error, undecodable JSON, JSON that is not a dict or
\* a list, empty data or a first entry that is not a dict) leaves the cache
\* as it was; every request that does not deliver a valid payload ends in
\* such an error, so an expired entry is neither returned nor removed; and
\* every entry of the cache holds a payload that passed the validation.
C19_FailureKeepsCache ==
    /\ [](\A u \in DOMAIN cache : ValidPayload(cache[u].data))
    /\ [][C19_Step]_vars

\* a request for a url with an expired entry has failed and the entry is
\* still there, with its old timestamp
C19_Witness ==
    /\ api_out.st = "raised"
    /\ api_in.requested
    /\ api_in.url \in DOMAIN cache
    /\ now - cache[api_in.url].timestamp >= 300

====
